---- MODULE Spec2Model ----
(***************************************************************************)
(* Client side of the Excel Agent: the App component (two revisions of    *)
(* App.jsx are in the repository), the TextInput and VoiceInput            *)
(* components, the SSE client createSSEConnection and the voice WebSocket  *)
(* client.  The browser objects (EventSource, WebSocket, timers, speech    *)
(* recognition) and the backend's event streams are the environment.       *)
(***************************************************************************)
EXTENDS Integers, Sequences, FiniteSets, TLC

(***************************************************************************)
(* Bounds of the model.                                                    *)
(***************************************************************************)
MaxQuestions == 2
MaxChunks == 2
MaxVoiceChunks == 1
MaxStatus == 1
MaxSockets == 2
MaxPending == 2
MaxFaults == 2
MaxParseErrors == 1

(***************************************************************************)
(* JavaScript values.  An object is a record; a field that is absent is    *)
(* not in its domain.  A string is a TLA+ string, except the generated     *)
(* code, which is the sequence of characters that the chunks append.       *)
(***************************************************************************)
Has(d, k) == k \in DOMAIN d

\* d.k || dflt for a string-valued field (absent and '' are falsy)
StrOr(d, k, dflt) == IF Has(d, k) /\ d[k] # "" THEN d[k] ELSE dflt

\* d.k || dflt for an array-valued field (an array, even empty, is truthy)
ArrOr(d, k, dflt) == IF Has(d, k) THEN d[k] ELSE dflt

\* d.k || false for a boolean field
BoolOr(d, k) == IF Has(d, k) THEN d[k] ELSE FALSE

\* truthiness of a string-valued field
Truthy(d, k) == Has(d, k) /\ d[k] # ""

\* EventSource.readyState / WebSocket.readyState
CONNECTING == "CONNECTING"
OPEN == "OPEN"
CLOSED == "CLOSED"

\* The environments explored.  Each says how many questions the user asks, how many
\* network faults happen, whether the user speaks, how many chunks the code of an
\* SSE run has at most, how many callbacks of the completion check are tracked at
\* a time, whether the backend's payloads are the typical ones only or any of
\* them (fields missing, warnings), whether the stream can carry events whose
\* data is not JSON, and whether the user also types without submitting and
\* submits blank text.
Scenarios ==
    { [questions |-> MaxQuestions, faults |-> 0, voice |-> TRUE,
       chunks |-> MaxChunks - 1, pending |-> MaxPending - 1, payloads |-> "typical",
       garbled |-> FALSE, typing |-> FALSE],
      [questions |-> MaxQuestions - 1, faults |-> MaxFaults - 1, voice |-> TRUE,
       chunks |-> MaxChunks, pending |-> MaxPending - 1, payloads |-> "typical",
       garbled |-> FALSE, typing |-> FALSE],
      [questions |-> MaxQuestions - 1, faults |-> 0, voice |-> TRUE,
       chunks |-> MaxChunks, pending |-> MaxPending, payloads |-> "any",
       garbled |-> FALSE, typing |-> TRUE],
      [questions |-> MaxQuestions, faults |-> MaxFaults, voice |-> FALSE,
       chunks |-> MaxChunks, pending |-> MaxPending, payloads |-> "any",
       garbled |-> TRUE, typing |-> FALSE] }

Conns == 1 .. MaxQuestions
Socks == 1 .. MaxSockets
Null == 0

VARIABLES
    scenario,       \* what the environment may do in this behaviour (see Scenarios)
    variant,        \* which revision of App is running: "part_000" or "App.jsx"
    mounted,        \* App (and its children TextInput, VoiceInput) is mounted
    app,            \* App: its useState values and its two refs
    es,             \* the EventSource objects createSSEConnection has constructed
    rafPending,     \* requestAnimationFrame callbacks of the completion check not yet run
    orphanTimers,   \* pending setTimeout callbacks that renderCheckTimeoutRef no longer names
    srv,            \* backend: the pipeline run behind each EventSource
    delivered,      \* how far the events the newest EventSource passed to onMessage
                    \* are in the sequence of a run (see Sequence)
    inputText,      \* TextInput: its question state
    isListening,    \* VoiceInput: isListening
    wsRef,          \* VoiceInput: wsRef.current
    ws,             \* the WebSocket objects createWebSocketConnection has constructed
    wsq,            \* backend: per WebSocket, the requests whose terminal event is not yet delivered
    wsrun,          \* backend: per WebSocket, the pipeline run of the oldest such request
    nQuestions,     \* number of questions submitted so far (typed or spoken)
    reqs,           \* per question: how many analysis requests were issued for it
    curQ,           \* the question the display was last reset for
    faults,         \* number of network faults so far
    expectedCode,   \* the chunks of the current question's code_chunk events handled
                    \* since the last reset, concatenated in the order of arrival
    voiceApp,       \* App's state on the voice channel, when the two channels are run
                    \* side by side on the same events (see SpecChannels)
    call            \* services/api: the HTTP request the client function called last
                    \* has issued (see SpecApi)

vars == <<scenario, variant, mounted, app, es, rafPending, orphanTimers, srv, delivered, inputText,
          isListening, wsRef, ws, wsq, wsrun, nQuestions, reqs, curQ, faults, expectedCode,
          voiceApp, call>>

\* the variables that only the side specifications change
auxVars == <<voiceApp, call>>

\* no call of listFiles, analyze or createSSEConnection has been made
NoCall == [fn |-> "none"]

appVars == <<app, es, rafPending, orphanTimers>>
voiceVars == <<isListening, wsRef, ws, wsq, wsrun>>
questionVars == <<nQuestions, curQ, expectedCode, delivered>>

Revised == "part_000"
Original == "App.jsx"

(***************************************************************************)
(* App: state after construction (useState / useRef initial values).       *)
(***************************************************************************)
AppInit ==
    [ code |-> <<>>, output |-> "", error |-> "", success |-> FALSE,
      columns |-> <<>>, originalFile |-> "", isLoading |-> FALSE, status |-> "",
      question |-> "", graphFiles |-> <<>>, isComplete |-> FALSE,
      sseStreamClosed |-> FALSE,
      sseConnectionRef |-> Null,
      renderCheckTimeoutRef |-> "null" ]

\* An EventSource that has not been constructed yet
NoSource ==
    [readyState |-> "none", q |-> 0, pendingFetch |-> FALSE, requests |-> 0, onErrorCalls |-> 0,
     parseErrors |-> 0]

\* The client-side world the handlers of App read and write
World == [app |-> app, es |-> es, raf |-> rafPending, orphans |-> orphanTimers]

SetWorld(w) ==
    /\ app' = w.app
    /\ es' = w.es
    /\ rafPending' = w.raf
    /\ orphanTimers' = w.orphans

\* EventSource.close(): readyState becomes CLOSED; the fetch is aborted, so there is
\* no reconnection and no further event
EventSourceClose(E, c) == [E EXCEPT ![c].readyState = CLOSED, ![c].pendingFetch = FALSE]

\* closeSSEConnection dropping the reference without calling close()
closeSSEConnectionForget(w) ==
    IF w.app.sseConnectionRef # Null
    THEN [w EXCEPT !.app.sseConnectionRef = Null]
    ELSE w

\* closeSSEConnection of part_000: acts on the connection the ref names
closeSSEConnection(w) ==
    LET c == w.app.sseConnectionRef IN
    IF c # Null /\ w.es[c].readyState # CLOSED
    THEN [w EXCEPT !.es = EventSourceClose(w.es, c), !.app.sseConnectionRef = Null]
    ELSE w

\* App.jsx closes the EventSource its callbacks closed over
closeOwnEventSource(w, c) ==
    IF w.es[c].readyState # CLOSED
    THEN [w EXCEPT !.es = EventSourceClose(w.es, c), !.app.sseConnectionRef = Null]
    ELSE w

\* clearAllTimeouts: clearTimeout of the timer the ref names (a no-op if it has fired)
clearAllTimeouts(w) ==
    IF w.app.renderCheckTimeoutRef # "null"
    THEN [w EXCEPT !.app.renderCheckTimeoutRef = "null"]
    ELSE w

resetAnalysisState(w) ==
    clearAllTimeouts(
        [w EXCEPT !.app.code = <<>>, !.app.output = "", !.app.error = "",
                  !.app.success = FALSE, !.app.columns = <<>>,
                  !.app.originalFile = "", !.app.graphFiles = <<>>,
                  !.app.isComplete = FALSE, !.app.sseStreamClosed = FALSE,
                  !.app.status = ""])

\* resetState of App.jsx, passed to VoiceInput as onResetState
resetState(w) ==
    [w EXCEPT !.app.code = <<>>, !.app.output = "", !.app.error = "",
              !.app.success = FALSE, !.app.columns = <<>>,
              !.app.originalFile = "", !.app.graphFiles = <<>>]

\* the execution_result branch showing the payload's error whatever success says
setExecutionResultAnyError(w, data) ==
    [w EXCEPT !.app.output = StrOr(data, "output", ""),
              !.app.error = StrOr(data, "error", ""),
              !.app.success = BoolOr(data, "success"),
              !.app.graphFiles = ArrOr(data, "graph_files", <<>>)]

\* the statements shared by every execution_result branch
setExecutionResult(w, data) ==
    [w EXCEPT !.app.output = StrOr(data, "output", ""),
              !.app.error = IF Truthy(data, "error") /\ ~BoolOr(data, "success")
                            THEN StrOr(data, "error", "") ELSE "",
              !.app.success = BoolOr(data, "success"),
              !.app.graphFiles = ArrOr(data, "graph_files", <<>>)]

\* handleExecutionResult ending the request when the generated code failed
handleExecutionResultFatal(w, data) ==
    LET w1 == [setExecutionResult(w, data) EXCEPT !.app.status = ""] IN
    IF Truthy(data, "error") /\ ~BoolOr(data, "success")
    THEN [closeSSEConnection(w1) EXCEPT !.app.isLoading = FALSE,
                                        !.app.sseStreamClosed = TRUE]
    ELSE w1

handleExecutionResult(w, data) ==
    [setExecutionResult(w, data) EXCEPT !.app.status = ""]

(***************************************************************************)
(* App: the completion check (part_000 only).                              *)
(***************************************************************************)
COMPLETE_STATUS == "The analysis is complete."
CONNECTION_ERROR == "Connection error. Please check if the backend server is running."
DEFAULT_ERROR == "An error occurred"

hasAllData(a) ==
    Len(a.code) > 0 /\ (a.output # "" \/ a.error # "") /\ Len(a.columns) > 0

\* The effect: clears the named timer, then asks for an animation frame when the
\* stream is closed, the run is not yet complete and all data is there.  At most
\* scenario.pending callbacks are tracked at a time.
completionCheckEffect(w) ==
    LET w1 == clearAllTimeouts(w) IN
    IF w1.app.isComplete \/ ~w1.app.sseStreamClosed THEN w1
    ELSE IF hasAllData(w1.app) THEN [w1 EXCEPT !.raf = IF @ < scenario.pending THEN @ + 1 ELSE @]
    ELSE w1

effectDeps(a) == <<a.isComplete, a.sseStreamClosed, a.code, a.output, a.error, a.columns>>

\* React commits the handler's batched updates and runs the effect when one of its
\* dependencies changed; setColumns always stores a new array (colsSet).
Render(w0, w1, colsSet) ==
    IF variant = Revised /\ (colsSet \/ effectDeps(w0.app) # effectDeps(w1.app))
    THEN completionCheckEffect(w1)
    ELSE w1

\* the requestAnimationFrame callback: starts the 1000 ms timer and names it in the ref
animationFrameCallback(w) ==
    [w EXCEPT !.raf = @ - 1,
              !.orphans = IF w.app.renderCheckTimeoutRef = "live" /\ @ < scenario.pending
                          THEN @ + 1 ELSE @,
              !.app.renderCheckTimeoutRef = "live"]

\* the setTimeout callback (hasAllData was true when the effect ran)
renderCheckCallback(w) ==
    LET c == w.app.sseConnectionRef
        streamStillClosed == c = Null \/ w.es[c].readyState = CLOSED
    IN  IF streamStillClosed
        THEN [w EXCEPT !.app.isLoading = FALSE, !.app.isComplete = TRUE,
                       !.app.status = COMPLETE_STATUS]
        ELSE w

(***************************************************************************)
(* App: the callbacks handleAnalyze gives to createSSEConnection.          *)
(***************************************************************************)
SelectedFile(data) ==
    IF Has(data, "file_name") THEN "Selected file: sales.xlsx"
    ELSE "Selected file: undefined"

\* the error branch starting from a cleared display
setErrorEventCleared(w, data) ==
    [resetAnalysisState(w) EXCEPT !.app.error = StrOr(data, "error", DEFAULT_ERROR),
                                  !.app.isLoading = FALSE,
                                  !.app.isComplete = FALSE,
                                  !.app.status = ""]

\* part_000, lines 135-138: the setters of the error branch
setErrorEvent(w, data) ==
    [w EXCEPT !.app.error = StrOr(data, "error", DEFAULT_ERROR),
              !.app.isLoading = FALSE,
              !.app.isComplete = FALSE,
              !.app.status = ""]

\* part_000, lines 120-142
onMessage(w, c, data) ==
    LET t == data.type IN
    IF t = "status" THEN [w EXCEPT !.app.status = StrOr(data, "message", "")]
    ELSE IF t = "file_selected" THEN [w EXCEPT !.app.status = SelectedFile(data)]
    ELSE IF t = "code_chunk"
        THEN [w EXCEPT !.app.code = @ \o ArrOr(data, "chunk", <<>>)]
    ELSE IF t = "execution_result" THEN handleExecutionResult(w, data)
    ELSE IF t = "column_traceability"
        THEN LET w1 == [w EXCEPT !.app.columns = ArrOr(data, "columns_used", <<>>),
                                 !.app.originalFile = StrOr(data, "original_file", "")]
             IN  [closeSSEConnection(w1) EXCEPT !.app.sseStreamClosed = TRUE]
    ELSE IF t = "error"
        THEN [closeSSEConnection(setErrorEvent(w, data)) EXCEPT !.app.sseStreamClosed = TRUE]
    ELSE w

\* App.jsx, lines 58-97
onMessageOriginal(w, c, data) ==
    LET t == data.type IN
    IF t = "status" THEN [w EXCEPT !.app.status = StrOr(data, "message", "")]
    ELSE IF t = "file_selected" THEN [w EXCEPT !.app.status = SelectedFile(data)]
    ELSE IF t = "code_chunk"
        THEN [w EXCEPT !.app.code = @ \o ArrOr(data, "chunk", <<>>)]
    ELSE IF t = "execution_result"
        THEN [setExecutionResult(w, data) EXCEPT !.app.isLoading = FALSE,
                                                 !.app.status = ""]
    ELSE IF t = "column_traceability"
        THEN closeOwnEventSource(
                [w EXCEPT !.app.columns = ArrOr(data, "columns_used", <<>>),
                          !.app.originalFile = StrOr(data, "original_file", ""),
                          !.app.isLoading = FALSE,
                          !.app.status = ""], c)
    ELSE IF t = "error"
        THEN closeOwnEventSource(
                [w EXCEPT !.app.error = StrOr(data, "error", DEFAULT_ERROR),
                          !.app.isLoading = FALSE,
                          !.app.status = ""], c)
    ELSE w

\* the connection error shown whatever has been received
showConnectionErrorAlways(w) == [w EXCEPT !.app.error = CONNECTION_ERROR]

\* "Only show connection error if we haven't received any results"
showConnectionError(w) ==
    IF w.app.output = "" /\ Len(w.app.code) = 0
    THEN [w EXCEPT !.app.error = CONNECTION_ERROR]
    ELSE w

\* part_000, lines 143-159
onError(w, c) ==
    LET w1 == closeSSEConnection([w EXCEPT !.app.isLoading = FALSE])
    IN  showConnectionError([w1 EXCEPT !.app.sseStreamClosed = TRUE])

\* App.jsx, lines 98-117
onErrorOriginal(w, c) ==
    showConnectionError(closeOwnEventSource([w EXCEPT !.app.isLoading = FALSE], c))

AppOnMessage(w, c, data) ==
    IF variant = Revised THEN onMessage(w, c, data) ELSE onMessageOriginal(w, c, data)

AppOnError(w, c) ==
    IF variant = Revised THEN onError(w, c) ELSE onErrorOriginal(w, c)

(***************************************************************************)
(* services/api: createSSEConnection.                                      *)
(***************************************************************************)
\* the EventSource the next "new EventSource(...)" constructs
NewSource(E) == CHOOSE c \in Conns : E[c].readyState = "none" /\
                                     \A d \in Conns : d < c => E[d].readyState # "none"

\* the EventSource constructed last
Newest(E) == Cardinality({c \in Conns : E[c].readyState # "none"})

CanConstruct(E) == \E c \in Conns : E[c].readyState = "none"

\* data with data.type set from the event's name when it has no type of its own
WithType(data, name) ==
    IF ~Truthy(data, "type") /\ name # ""
    THEN [k \in DOMAIN data \cup {"type"} |-> IF k = "type" THEN name ELSE data[k]]
    ELSE data

\* whether handleEvent reaches onMessage: JSON.parse succeeded on an object; the
\* handlers read data.type, which is absent only for an unnamed event without one
Parses(ev) == ev.ok

\* handleEvent handing over the parsed data as it is
onMessageCallsRaw(ev) == IF Parses(ev) THEN <<ev.data>> ELSE <<>>

\* the calls of onMessage that handleEvent makes for ev: one, with the parsed data
\* and its type defaulted, or none when JSON.parse throws
onMessageCalls(ev) == IF Parses(ev) THEN <<WithType(ev.data, ev.type)>> ELSE <<>>

\* handleEvent: parse, default the type, hand over to onMessage; a parse error is
\* logged (console.error, counted up to MaxParseErrors) and the event dropped
handleEvent(w, c, ev) ==
    IF onMessageCalls(ev) # <<>>
    THEN LET data == onMessageCalls(ev)[1] IN
         IF Has(data, "type") THEN AppOnMessage(w, c, data) ELSE w
    ELSE [w EXCEPT !.es[c].parseErrors = IF @ < MaxParseErrors THEN @ + 1 ELSE @]

\* eventSource.onerror reporting every error, whatever the readyState
eventSourceOnErrorAlways(w, c) ==
    AppOnError([w EXCEPT !.es = IF @[c].readyState = CLOSED THEN @ ELSE EventSourceClose(@, c),
                         !.es[c].onErrorCalls = @ + 1], c)

\* eventSource.onerror leaving a CONNECTING EventSource to the browser
eventSourceOnErrorKeep(w, c) ==
    IF w.es[c].readyState = CLOSED
    THEN AppOnError([w EXCEPT !.es[c].onErrorCalls = @ + 1], c)
    ELSE w

\* eventSource.onerror
eventSourceOnError(w, c) ==
    IF w.es[c].readyState = CLOSED
    THEN AppOnError([w EXCEPT !.es[c].onErrorCalls = @ + 1], c)
    ELSE IF w.es[c].readyState = CONNECTING
    THEN AppOnError([w EXCEPT !.es = EventSourceClose(@, c),
                              !.es[c].onErrorCalls = @ + 1], c)
    ELSE w

\* The browser dispatches ev to the listeners of its type in the order they were
\* registered: handleEvent (addEventListener for the seven names, onmessage for
\* unnamed events), and for an event named "error" also eventSource.onerror.
dispatchEvent(w, c, ev) ==
    LET w1 == handleEvent(w, c, ev) IN
    IF ev.type = "error" THEN eventSourceOnError(w1, c) ELSE w1

\* the error event of the browser itself: it carries no data, so JSON.parse throws
ConnectionErrorEvent == [type |-> "error", ok |-> FALSE, data |-> [k \in {} |-> ""]]

\* the world after the browser dispatched ev on EventSource c and React committed
\* the updates of the handlers
AfterSSE(w, c, ev) ==
    Render(w, dispatchEvent(w, c, ev),
           \E data \in {WithType(ev.data, ev.type)} :
               Parses(ev) /\ data.type = "column_traceability")

\* new EventSource(url): the object starts CONNECTING; the browser then fetches
createSSEConnection(w, q) ==
    [w EXCEPT !.es[NewSource(w.es)] =
        [readyState |-> CONNECTING, q |-> q, pendingFetch |-> TRUE, requests |-> 0,
         onErrorCalls |-> 0, parseErrors |-> 0]]

(***************************************************************************)
(* App: handleAnalyze.                                                     *)
(***************************************************************************)
\* part_000, lines 108-163
handleAnalyzeRevised(w, question, q) ==
    LET w1 == closeSSEConnection(resetAnalysisState(w))
        w2 == [w1 EXCEPT !.app.question = question, !.app.isLoading = TRUE]
        w3 == createSSEConnection(w2, q)
    IN  [w3 EXCEPT !.app.sseConnectionRef = NewSource(w2.es)]

\* App.jsx, lines 36-121
handleAnalyzeOriginal(w, question, q) ==
    LET w1 == [resetState(w) EXCEPT !.app.question = question,
                                    !.app.isLoading = TRUE,
                                    !.app.status = "Analyzing..."]
        c  == w1.app.sseConnectionRef
        w2 == IF c # Null
              THEN [w1 EXCEPT !.es = EventSourceClose(@, c), !.app.sseConnectionRef = Null]
              ELSE w1
        w3 == createSSEConnection(w2, q)
    IN  [w3 EXCEPT !.app.sseConnectionRef = NewSource(w2.es)]

handleAnalyze(w, question, q) ==
    IF variant = Revised THEN handleAnalyzeRevised(w, question, q)
    ELSE handleAnalyzeOriginal(w, question, q)

(***************************************************************************)
(* Backend: one pipeline run and the progress events it emits, in the      *)
(* order status*, file_selected, status*, code_chunk*, execution_result,   *)
(* column_traceability, complete, or an error from any stage before        *)
(* column_traceability.                                                    *)
(***************************************************************************)
NoFields == [k \in {} |-> ""]

\* a run started by GET /api/analyze/stream
RunInit == [stage |-> "selecting", nStatus |-> 0, nChunks |-> 0, maxChunks |-> scenario.chunks]
\* a run started by a transcription on /ws/voice; its status and file_selected
\* messages only change VoiceInput's own status line and are left out
RunVoice ==
    [stage |-> "preparing", nStatus |-> MaxStatus, nChunks |-> 0, maxChunks |-> MaxVoiceChunks]
RunIdle == [stage |-> "idle", nStatus |-> 0, nChunks |-> 0, maxChunks |-> 0]

StatusData == {[message |-> "Generating code..."]}
FileSelectedData == {[file_name |-> "sales.xlsx"]}
\* the n-th chunk of the generated code
ChunkData(n) == {[chunk |-> <<n>>]}
\* payloads with fields missing or with a warning next to a success
Unusual(payloads) == IF scenario.payloads = "any" THEN payloads ELSE {}
ExecutionData ==
    { [output |-> "42", success |-> TRUE, graph_files |-> <<"graph_1.html">>],
      [output |-> "", error |-> "ZeroDivisionError", success |-> FALSE] }
    \cup Unusual({ [output |-> "42", error |-> "DeprecationWarning", success |-> TRUE],
                   NoFields })
ColumnsData ==
    { [columns_used |-> <<"region">>, original_file |-> "sales.xlsx"] }
    \cup Unusual({NoFields})
ErrorData == {[error |-> "No suitable file found"]} \cup Unusual({NoFields})

\* the payloads a run in state r can put into an event of type t
PayloadsOf(t, r) ==
    CASE t = "status" -> StatusData
      [] t = "file_selected" -> FileSelectedData
      [] t = "code_chunk" -> ChunkData(r.nChunks)
      [] t = "execution_result" -> ExecutionData
      [] t = "column_traceability" -> ColumnsData
      [] t = "error" -> ErrorData
      [] OTHER -> {NoFields}

\* the event types the run can emit next, each with the run's state after it
RunSteps(r) ==
    LET more == [r EXCEPT !.nStatus = @ + 1]
        status == IF r.nStatus < MaxStatus THEN {<<"status", more>>} ELSE {}
        chunk == IF r.nChunks < r.maxChunks
                 THEN {<<"code_chunk", [r EXCEPT !.stage = "generating", !.nChunks = @ + 1]>>}
                 ELSE {}
        exec == {<<"execution_result", [r EXCEPT !.stage = "executed"]>>}
        fail == {<<"error", [r EXCEPT !.stage = "errored"]>>}
    IN  CASE r.stage = "selecting" ->
                status \cup fail \cup {<<"file_selected", [r EXCEPT !.stage = "preparing"]>>}
          [] r.stage = "preparing" -> status \cup chunk \cup exec \cup fail
          [] r.stage = "generating" -> chunk \cup exec \cup fail
          [] r.stage = "executed" ->
                fail \cup {<<"column_traceability", [r EXCEPT !.stage = "traced"]>>}
          [] r.stage = "traced" -> {<<"complete", [r EXCEPT !.stage = "completed"]>>}
          [] OTHER -> {}

\* closing the channel makes the backend abandon the run behind it
Abandon(S, E) == [c \in Conns |-> IF E[c].readyState = CLOSED THEN RunIdle ELSE S[c]]

\* an SSE event of kind t: named t, with data that may or may not repeat the name
\* as data.type, or unnamed (a "message" event) with data.type set
SSEEvents(t, r) ==
    { [type |-> t, ok |-> TRUE, data |-> d] : d \in PayloadsOf(t, r) }
    \cup { [type |-> t, ok |-> TRUE, data |-> WithType(d, t)] : d \in PayloadsOf(t, r) }
    \cup { [type |-> "message", ok |-> TRUE, data |-> WithType(d, t)] : d \in PayloadsOf(t, r) }

\* the names createSSEConnection listens to, and "message" for an unnamed event
EventNames == {"status", "file_selected", "code_chunk", "execution_result",
               "column_traceability", "complete", "error", "message"}

\* events whose data is not JSON
GarbledEvents ==
    IF scenario.garbled
    THEN {[type |-> n, ok |-> FALSE, data |-> NoFields] : n \in EventNames}
    ELSE {}

(***************************************************************************)
(* Text: a question is a sequence of characters.                           *)
(***************************************************************************)
RECURSIVE TrimStart(_)
TrimStart(t) == IF t # <<>> /\ Head(t) = " " THEN TrimStart(Tail(t)) ELSE t

RECURSIVE TrimEnd(_)
TrimEnd(t) ==
    IF t # <<>> /\ t[Len(t)] = " " THEN TrimEnd(SubSeq(t, 1, Len(t) - 1)) ELSE t

\* String.prototype.trim
Trim(t) == TrimEnd(TrimStart(t))

\* what the user can type into the text field
TypedTexts ==
    { <<" ", "a", "b", "c", " ">> } \cup (IF scenario.typing THEN { <<" ">> } ELSE {})

(***************************************************************************)
(* App: handleVoiceAnalysisResult, the onAnalysisResult prop of VoiceInput.*)
(***************************************************************************)
\* part_000, lines 165-184
handleVoiceAnalysisResultRevised(w, data) ==
    LET t == data.type IN
    IF t = "code_chunk" THEN [w EXCEPT !.app.code = @ \o ArrOr(data, "chunk", <<>>)]
    ELSE IF t = "execution_result" THEN handleExecutionResult(w, data)
    ELSE IF t = "column_traceability"
        THEN [w EXCEPT !.app.columns = ArrOr(data, "columns_used", <<>>),
                       !.app.originalFile = StrOr(data, "original_file", ""),
                       !.app.sseStreamClosed = TRUE]
    ELSE IF t = "error"
        THEN [w EXCEPT !.app.error = StrOr(data, "error", DEFAULT_ERROR),
                       !.app.isLoading = FALSE,
                       !.app.isComplete = FALSE,
                       !.app.sseStreamClosed = TRUE]
    ELSE IF t = "complete"
        THEN [w EXCEPT !.app.isLoading = FALSE,
                       !.app.isComplete = TRUE,
                       !.app.status = COMPLETE_STATUS]
    ELSE w

\* App.jsx, lines 133-156
handleVoiceAnalysisResultOriginal(w, data) ==
    LET t == data.type IN
    IF t = "code_chunk" THEN [w EXCEPT !.app.code = @ \o ArrOr(data, "chunk", <<>>)]
    ELSE IF t = "execution_result"
        THEN [setExecutionResult(w, data) EXCEPT !.app.isLoading = FALSE]
    ELSE IF t = "column_traceability"
        THEN [w EXCEPT !.app.columns = ArrOr(data, "columns_used", <<>>),
                       !.app.originalFile = StrOr(data, "original_file", "")]
    ELSE IF t = "error"
        THEN [w EXCEPT !.app.error = StrOr(data, "error", DEFAULT_ERROR),
                       !.app.isLoading = FALSE]
    ELSE IF t = "complete" THEN [w EXCEPT !.app.isLoading = FALSE]
    ELSE w

handleVoiceAnalysisResult(w, data) ==
    IF variant = Revised THEN handleVoiceAnalysisResultRevised(w, data)
    ELSE handleVoiceAnalysisResultOriginal(w, data)

\* the onResetState prop of VoiceInput
onResetState(w) == IF variant = Revised THEN resetAnalysisState(w) ELSE resetState(w)

(***************************************************************************)
(* VoiceInput.  Its own status line and hasValidTranscriptionRef only feed  *)
(* that status line and are left out.                                      *)
(***************************************************************************)
\* the callback forwarding the type alone
PickNothing(data, k) == NoFields

\* {k: data.k}: the property is undefined when data has none
Pick(data, k) == IF Has(data, k) THEN [j \in {k} |-> data[k]] ELSE NoFields

\* {type: t, ...fields}
Typed(t, fields) ==
    [k \in DOMAIN fields \cup {"type"} |-> IF k = "type" THEN t ELSE fields[k]]

\* the message callback startListening gives to createWebSocketConnection
voiceOnMessage(w, data) ==
    LET t == IF Has(data, "type") THEN data.type ELSE "" IN
    IF Has(data, "status") /\ data.status \in {"received", "file_selected"} THEN w
    ELSE IF t = "status" THEN w
    ELSE IF t = "code_chunk"
        THEN handleVoiceAnalysisResult(w, Typed("code_chunk", Pick(data, "chunk")))
    ELSE IF t = "execution_result"
        THEN handleVoiceAnalysisResult(w, Typed("execution_result", data))
    ELSE IF t = "column_traceability"
        THEN handleVoiceAnalysisResult(w, Typed("column_traceability", data))
    ELSE IF t = "complete" THEN [w EXCEPT !.app.isLoading = FALSE]
    ELSE IF t = "error"
        THEN [handleVoiceAnalysisResult(w, Typed("error", Pick(data, "error")))
                EXCEPT !.app.isLoading = FALSE]
    ELSE w

\* the world after ws.onmessage handed data to the callback and React committed
AfterVoice(w, data) ==
    Render(w, voiceOnMessage(w, data), Has(data, "type") /\ data.type = "column_traceability")

\* the WebSocket the next createWebSocketConnection constructs
NewSocket(W) == CHOOSE s \in Socks : W[s] = "none" /\ \A d \in Socks : d < s => W[d] # "none"

\* sendTranscription: ws.send only when the socket is OPEN
Sends(W, s) == s # Null /\ W[s] = OPEN

\* sendTranscription(ws, text): the messages it puts on the socket
sendTranscription(W, s, text) == IF Sends(W, s) THEN <<[text |-> text]>> ELSE <<>>

MinTranscriptLength == 3

\* the loop of recognition.onresult over event.results
RECURSIVE finalTranscript(_)
finalTranscript(results) ==
    IF results = <<>> THEN <<>>
    ELSE (IF Head(results).isFinal THEN Head(results).transcript \o <<" ">> ELSE <<>>)
         \o finalTranscript(Tail(results))

\* recognition.onresult accepting any final text that is not blank
AcceptedAnyLength(results) ==
    /\ finalTranscript(results) # <<>>
    /\ Trim(finalTranscript(results)) # <<>>

\* whether recognition.onresult starts an analysis for these results
Accepted(results) ==
    /\ finalTranscript(results) # <<>>
    /\ Trim(finalTranscript(results)) # <<>>
    /\ Len(Trim(finalTranscript(results))) >= MinTranscriptLength

\* what the speech recogniser can report in one result event
SpeechEvents ==
    { << [transcript |-> <<" ", "a", "b", "c">>, isFinal |-> TRUE] >>,
      << [transcript |-> <<"a", "b">>, isFinal |-> TRUE] >>,
      << [transcript |-> <<"a", "b", "c">>, isFinal |-> FALSE] >>,
      << [transcript |-> <<"a", "b", "c">>, isFinal |-> FALSE],
         [transcript |-> <<" ">>, isFinal |-> TRUE] >>,
      << [transcript |-> <<"a", "b", "c">>, isFinal |-> TRUE],
         [transcript |-> <<>>, isFinal |-> TRUE] >> }

\* recognition.onresult for the q-th question: the world after it, the messages
\* put on the WebSocket and the calls of onTranscription
recognitionOnResult(w, W, s, results, q) ==
    IF Accepted(results)
    THEN LET text == Trim(finalTranscript(results))
             w1 == onResetState(w)
             w2 == [w1 EXCEPT !.app.question = text, !.app.isLoading = TRUE]
         IN  [w |-> handleAnalyze(w2, text, q),
              sent |-> sendTranscription(W, s, text),
              transcriptions |-> <<text>>]
    ELSE [w |-> w, sent |-> <<>>, transcriptions |-> <<>>]

(***************************************************************************)
(* The sequence of a run: status*, file_selected, status*, code_chunk*,    *)
(* execution_result, column_traceability, complete, or an error that ends  *)
(* it.  Sequence(phase, t) is where a run that was at phase is after an    *)
(* event of type t: "completed" after the whole sequence, "failed" after   *)
(* an error, "rejected" when t is not what the sequence allows.           *)
(***************************************************************************)
Sequence(phase, t) ==
    CASE phase = "selecting" /\ t = "status" -> "selecting"
      [] phase = "selecting" /\ t = "file_selected" -> "preparing"
      [] phase = "preparing" /\ t = "status" -> "preparing"
      [] phase \in {"preparing", "generating"} /\ t = "code_chunk" -> "generating"
      [] phase \in {"preparing", "generating"} /\ t = "execution_result" -> "executed"
      [] phase = "executed" /\ t = "column_traceability" -> "traced"
      [] phase = "traced" /\ t = "complete" -> "completed"
      [] phase \in {"selecting", "preparing", "generating", "executed"} /\ t = "error" -> "failed"
      [] OTHER -> "rejected"

(***************************************************************************)
(* Initial state.                                                          *)
(***************************************************************************)
Init ==
    /\ scenario \in Scenarios
    /\ variant \in {Revised, Original}
    /\ mounted = TRUE
    /\ app = AppInit
    /\ es = [c \in Conns |-> NoSource]
    /\ rafPending = 0
    /\ orphanTimers = 0
    /\ srv = [c \in Conns |-> RunIdle]
    /\ delivered = "selecting"
    /\ inputText = <<>>
    /\ isListening = FALSE
    /\ wsRef = Null
    /\ ws = [s \in Socks |-> "none"]
    /\ wsq = [s \in Socks |-> <<>>]
    /\ wsrun = [s \in Socks |-> RunIdle]
    /\ nQuestions = 0
    /\ reqs = [q \in 1 .. MaxQuestions |-> 0]
    /\ curQ = 0
    /\ faults = 0
    /\ expectedCode = <<>>
    /\ voiceApp = AppInit
    /\ call = NoCall

\* a step of App's handlers: the world after it, and the runs abandoned by a close
AppStep(w) ==
    /\ SetWorld(w)
    /\ srv' = Abandon(srv, w.es)

(***************************************************************************)
(* TextInput.                                                              *)
(***************************************************************************)
\* handleSubmit passing the field's text as it is
handleSubmitUntrimmed(question, disabled) ==
    IF Trim(question) # <<>> /\ ~disabled
    THEN [calls |-> <<question>>, question |-> <<>>]
    ELSE [calls |-> <<>>, question |-> question]

\* handleSubmit: the calls of onAnalyze it makes and the field's text after it
handleSubmit(question, disabled) ==
    IF Trim(question) # <<>> /\ ~disabled
    THEN [calls |-> <<Trim(question)>>, question |-> <<>>]
    ELSE [calls |-> <<>>, question |-> question]

\* onChange(t) alone: the user types into the enabled field and does not submit
TextChange(t) ==
    /\ scenario.typing
    /\ mounted /\ ~app.isLoading
    /\ inputText # t
    /\ inputText' = t
    /\ UNCHANGED <<auxVars, scenario, variant, mounted, appVars, srv, reqs, faults, questionVars,
                   voiceVars>>

\* onChange(t) while the field is enabled, then handleSubmit:
\* onAnalyze(question.trim()) and clear the field, or nothing
TextSubmit(t) ==
    /\ mounted
    /\ LET text == IF app.isLoading THEN inputText ELSE t
           submit == handleSubmit(text, app.isLoading)
       IN
       IF submit.calls # <<>>
       THEN /\ nQuestions < scenario.questions
            /\ AppStep(Render(World, handleAnalyze(World, submit.calls[1], nQuestions + 1), TRUE))
            /\ nQuestions' = nQuestions + 1
            /\ curQ' = nQuestions + 1
            /\ expectedCode' = <<>>
            /\ delivered' = "selecting"
            /\ inputText' = submit.question
       ELSE /\ inputText' = submit.question
            /\ UNCHANGED <<appVars, srv, questionVars>>
    /\ UNCHANGED <<auxVars, scenario, variant, mounted, reqs, faults, voiceVars>>

(***************************************************************************)
(* The browser's EventSource and the backend behind it.                    *)
(***************************************************************************)
\* the browser issues the GET of a CONNECTING EventSource; the backend starts a run
SSEFetch(c) ==
    /\ es[c].readyState = CONNECTING /\ es[c].pendingFetch
    /\ es' = [es EXCEPT ![c].pendingFetch = FALSE, ![c].requests = @ + 1]
    /\ reqs' = [reqs EXCEPT ![es[c].q] = @ + 1]
    /\ srv' = [srv EXCEPT ![c] = RunInit]
    /\ UNCHANGED <<auxVars, scenario, variant, mounted, app, rafPending, orphanTimers, inputText, faults,
                   questionVars, voiceVars>>

\* the response arrives with status 200 and the event-stream type: "announce the connection"
SSEOpen(c) ==
    /\ es[c].readyState = CONNECTING /\ ~es[c].pendingFetch
    /\ es' = [es EXCEPT ![c].readyState = OPEN]
    /\ UNCHANGED <<auxVars, scenario, variant, mounted, app, rafPending, orphanTimers, srv, inputText, reqs,
                   faults, questionVars, voiceVars>>

\* a bad response: "fail the connection" (readyState CLOSED, then an error event)
SSEFail(c) ==
    /\ faults < scenario.faults
    /\ es[c].readyState = CONNECTING /\ ~es[c].pendingFetch
    /\ AppStep(Render(World,
                      dispatchEvent([World EXCEPT !.es[c].readyState = CLOSED], c,
                                    ConnectionErrorEvent),
                      FALSE))
    /\ faults' = faults + 1
    /\ UNCHANGED <<auxVars, scenario, variant, mounted, inputText, reqs, questionVars, voiceVars>>

\* a network error or the end of the stream: "reestablish the connection"
\* (readyState CONNECTING, an error event, and a new fetch unless closed meanwhile)
SSEReestablish(c) ==
    /\ faults < scenario.faults
    /\ \/ es[c].readyState = OPEN
       \/ es[c].readyState = CONNECTING /\ ~es[c].pendingFetch
    /\ AppStep(Render(World,
                      dispatchEvent([World EXCEPT !.es[c].readyState = CONNECTING,
                                                  !.es[c].pendingFetch = TRUE], c,
                                    ConnectionErrorEvent),
                      FALSE))
    /\ faults' = faults + 1
    /\ UNCHANGED <<auxVars, scenario, variant, mounted, inputText, reqs, questionVars, voiceVars>>

\* an error event dispatched while the EventSource stays OPEN
SSETransientError(c) ==
    /\ faults < scenario.faults
    /\ es[c].readyState = OPEN
    /\ AppStep(Render(World, dispatchEvent(World, c, ConnectionErrorEvent), FALSE))
    /\ faults' = faults + 1
    /\ UNCHANGED <<auxVars, scenario, variant, mounted, inputText, reqs, questionVars, voiceVars>>

\* the run behind an OPEN EventSource emits its next event and the browser
\* dispatches it to handleEvent
SSEDeliver(c) ==
    /\ es[c].readyState = OPEN
    /\ \E step \in RunSteps(srv[c]) : \E ev \in SSEEvents(step[1], step[2]) :
          LET w == AfterSSE(World, c, ev)
              data == WithType(ev.data, ev.type)
          IN  /\ SetWorld(w)
              /\ srv' = Abandon([srv EXCEPT ![c] = step[2]], w.es)
              /\ delivered' = IF c = Newest(es) THEN Sequence(delivered, data.type)
                              ELSE delivered
              /\ expectedCode' = IF data.type = "code_chunk" /\ es[c].q = curQ
                                 THEN expectedCode \o ArrOr(data, "chunk", <<>>)
                                 ELSE expectedCode
    /\ UNCHANGED <<auxVars, scenario, variant, mounted, inputText, reqs, faults, nQuestions, curQ, voiceVars>>

\* an OPEN EventSource receives an event whose data is not JSON
SSEGarbled(c) ==
    /\ es[c].readyState = OPEN
    /\ \E ev \in GarbledEvents : AppStep(AfterSSE(World, c, ev))
    /\ UNCHANGED <<auxVars, scenario, variant, mounted, inputText, reqs, faults, questionVars,
                   voiceVars>>

(***************************************************************************)
(* The completion check's animation frame and timer.                       *)
(***************************************************************************)
AnimationFrame ==
    /\ rafPending > 0
    /\ AppStep(animationFrameCallback(World))
    /\ UNCHANGED <<auxVars, scenario, variant, mounted, inputText, reqs, faults, questionVars, voiceVars>>

\* the timer renderCheckTimeoutRef names fires
RenderCheckTimer ==
    /\ app.renderCheckTimeoutRef = "live"
    /\ LET w0 == [World EXCEPT !.app.renderCheckTimeoutRef = "fired"]
       IN  AppStep(Render(w0, renderCheckCallback(w0), FALSE))
    /\ UNCHANGED <<auxVars, scenario, variant, mounted, inputText, reqs, faults, questionVars, voiceVars>>

\* a timer that a later animation frame overwrote in the ref fires
OrphanTimer ==
    /\ orphanTimers > 0
    /\ LET w0 == [World EXCEPT !.orphans = @ - 1]
       IN  AppStep(Render(w0, renderCheckCallback(w0), FALSE))
    /\ UNCHANGED <<auxVars, scenario, variant, mounted, inputText, reqs, faults, questionVars, voiceVars>>

(***************************************************************************)
(* VoiceInput and the voice WebSocket.                                     *)
(***************************************************************************)
\* startListening: open a WebSocket unless one that is not CLOSED is held, then
\* recognition.start(), whose onstart sets isListening
StartListening ==
    /\ scenario.voice
    /\ mounted /\ ~isListening
    /\ IF wsRef = Null \/ ws[wsRef] = CLOSED
       THEN /\ \E s \in Socks : ws[s] = "none"
            /\ ws' = [ws EXCEPT ![NewSocket(ws)] = CONNECTING]
            /\ wsRef' = NewSocket(ws)
       ELSE UNCHANGED <<ws, wsRef>>
    /\ isListening' = TRUE
    /\ UNCHANGED <<auxVars, scenario, variant, mounted, srv, inputText, wsq, wsrun, reqs, faults,
                   questionVars, appVars>>

\* stopListening, or the recogniser ending by itself: onend / onerror
StopListening ==
    /\ mounted /\ isListening
    /\ isListening' = FALSE
    /\ UNCHANGED <<auxVars, scenario, variant, mounted, srv, inputText, wsRef, ws, wsq, wsrun, reqs, faults,
                   questionVars, appVars>>

\* recognition.onresult
SpeechResult(results) ==
    /\ mounted /\ isListening
    /\ IF Accepted(results)
       THEN /\ nQuestions < scenario.questions
            /\ LET text == Trim(finalTranscript(results))
                   q  == nQuestions + 1
                   result == recognitionOnResult(World, ws, wsRef, results, q)
                   sent == result.sent # <<>>
               IN  /\ AppStep(Render(World, result.w, TRUE))
                   /\ wsq' = IF sent
                             THEN [wsq EXCEPT ![wsRef] = Append(@, [q |-> q, text |-> text])]
                             ELSE wsq
                   /\ wsrun' = IF sent /\ wsq[wsRef] = <<>>
                               THEN [wsrun EXCEPT ![wsRef] = RunVoice]
                               ELSE wsrun
                   /\ reqs' = IF sent THEN [reqs EXCEPT ![q] = @ + 1] ELSE reqs
                   /\ nQuestions' = q
                   /\ curQ' = q
            /\ expectedCode' = <<>>
            /\ delivered' = "selecting"
       ELSE UNCHANGED <<appVars, srv, wsq, wsrun, reqs, questionVars>>
    /\ UNCHANGED <<auxVars, scenario, variant, mounted, inputText, faults, isListening, wsRef, ws>>

\* the WebSocket handshake completes
WSOpen(s) ==
    /\ ws[s] = CONNECTING
    /\ ws' = [ws EXCEPT ![s] = OPEN]
    /\ UNCHANGED <<auxVars, scenario, variant, mounted, srv, inputText, isListening, wsRef, wsq, wsrun, reqs,
                   faults, questionVars, appVars>>

\* the connection is lost or the backend closes it; the backend drops its requests
WSClose(s) ==
    /\ faults < scenario.faults
    /\ ws[s] \in {CONNECTING, OPEN}
    /\ ws' = [ws EXCEPT ![s] = CLOSED]
    /\ wsq' = [wsq EXCEPT ![s] = <<>>]
    /\ wsrun' = [wsrun EXCEPT ![s] = RunIdle]
    /\ faults' = faults + 1
    /\ UNCHANGED <<auxVars, scenario, variant, mounted, srv, inputText, isListening, wsRef, reqs,
                   questionVars, appVars>>

\* the backend serves the requests of a socket one after the other; the run of the
\* oldest emits its next event, which ws.onmessage parses and hands to the callback
WSDeliver(s) ==
    /\ ws[s] = OPEN /\ wsq[s] # <<>>
    /\ \E step \in RunSteps(wsrun[s]) : \E d \in PayloadsOf(step[1], step[2]) :
          LET data == Typed(step[1], d)
              terminal == step[1] \in {"complete", "error"}
          IN  /\ AppStep(AfterVoice(World, data))
              /\ wsq' = IF terminal THEN [wsq EXCEPT ![s] = Tail(@)] ELSE wsq
              /\ wsrun' = [wsrun EXCEPT ![s] =
                              IF ~terminal THEN step[2]
                              ELSE IF Tail(wsq[s]) # <<>> THEN RunVoice ELSE RunIdle]
              /\ expectedCode' = IF step[1] = "code_chunk" /\ Head(wsq[s]).q = curQ
                                 THEN expectedCode \o ArrOr(data, "chunk", <<>>)
                                 ELSE expectedCode
    /\ UNCHANGED <<auxVars, scenario, variant, mounted, inputText, isListening, wsRef, ws, reqs, faults,
                   nQuestions, curQ, delivered>>

(***************************************************************************)
(* Unmount: the cleanup functions of App's and VoiceInput's effects.        *)
(***************************************************************************)
\* part_000, lines 46-51
cleanupRevised(w) == clearAllTimeouts(closeSSEConnection(w))

\* App.jsx, lines 27-34
cleanupOriginal(w) ==
    IF w.app.sseConnectionRef # Null
    THEN [w EXCEPT !.es = EventSourceClose(@, w.app.sseConnectionRef),
                   !.app.sseConnectionRef = Null]
    ELSE w

\* VoiceInput's cleanup: recognition.stop() and wsRef.current.close()
Unmount ==
    /\ mounted
    /\ mounted' = FALSE
    /\ AppStep(IF variant = Revised THEN cleanupRevised(World) ELSE cleanupOriginal(World))
    /\ isListening' = FALSE
    /\ ws' = IF wsRef # Null THEN [ws EXCEPT ![wsRef] = CLOSED] ELSE ws
    /\ wsq' = IF wsRef # Null THEN [wsq EXCEPT ![wsRef] = <<>>] ELSE wsq
    /\ wsrun' = IF wsRef # Null THEN [wsrun EXCEPT ![wsRef] = RunIdle] ELSE wsrun
    /\ UNCHANGED <<auxVars, scenario, variant, inputText, wsRef, reqs, faults, questionVars>>

Next ==
    \/ \E t \in TypedTexts : TextSubmit(t)
    \/ \E t \in TypedTexts : TextChange(t)
    \/ \E c \in Conns : SSEFetch(c)
    \/ \E c \in Conns : SSEOpen(c)
    \/ \E c \in Conns : SSEFail(c)
    \/ \E c \in Conns : SSEReestablish(c)
    \/ \E c \in Conns : SSETransientError(c)
    \/ \E c \in Conns : SSEDeliver(c)
    \/ \E c \in Conns : SSEGarbled(c)
    \/ AnimationFrame
    \/ RenderCheckTimer
    \/ OrphanTimer
    \/ StartListening
    \/ StopListening
    \/ \E r \in SpeechEvents : SpeechResult(r)
    \/ \E s \in Socks : WSOpen(s)
    \/ \E s \in Socks : WSClose(s)
    \/ \E s \in Socks : WSDeliver(s)
    \/ Unmount

Spec == Init /\ [][Next]_vars

(***************************************************************************)
(* The two channels side by side: the same progress events are handled by  *)
(* the onMessage callback of handleAnalyze and by VoiceInput's WebSocket   *)
(* callback with handleVoiceAnalysisResult, from the same state.           *)
(***************************************************************************)
MaxCode == 3

ProgressTypes == {"code_chunk", "execution_result", "column_traceability", "error"}

\* the state after handleAnalyze reset the display and the EventSource opened
InitChannels ==
    /\ scenario \in {s \in Scenarios : s.payloads = "any" /\ ~s.voice}
    /\ variant \in {Revised, Original}
    /\ mounted = TRUE
    /\ \E w \in {[app |-> AppInit, es |-> [c \in Conns |-> NoSource], raf |-> 0, orphans |-> 0]} :
          LET w1 == IF variant = Revised THEN handleAnalyzeRevised(w, <<"a", "b", "c">>, 1)
                    ELSE handleAnalyzeOriginal(w, <<"a", "b", "c">>, 1)
          IN  /\ app = w1.app
              /\ voiceApp = w1.app
              /\ es = [w1.es EXCEPT ![1].readyState = OPEN, ![1].pendingFetch = FALSE,
                                    ![1].requests = 1]
    /\ rafPending = 0
    /\ orphanTimers = 0
    /\ srv = [c \in Conns |-> RunIdle]
    /\ delivered = "selecting"
    /\ inputText = <<>>
    /\ isListening = FALSE
    /\ wsRef = Null
    /\ ws = [s \in Socks |-> "none"]
    /\ wsq = [s \in Socks |-> <<>>]
    /\ wsrun = [s \in Socks |-> RunIdle]
    /\ nQuestions = 1
    /\ reqs = [q \in 1 .. MaxQuestions |-> IF q = 1 THEN 1 ELSE 0]
    /\ curQ = 1
    /\ faults = 0
    /\ expectedCode = <<>>
    /\ call = NoCall

\* one progress event of type t with payload d, handled on both channels
HandleOnBothChannels(t, d) ==
    /\ t = "code_chunk" => Len(app.code) < MaxCode
    /\ LET wSSE == AppOnMessage(World, 1, Typed(t, d))
           wVoice == voiceOnMessage([World EXCEPT !.app = voiceApp], Typed(t, d))
       IN  /\ app' = wSSE.app
           /\ es' = wSSE.es
           /\ voiceApp' = wVoice.app
    /\ UNCHANGED <<scenario, variant, mounted, rafPending, orphanTimers, srv, delivered, inputText,
                   reqs, faults, questionVars, voiceVars, call>>

NextChannels ==
    \E t \in ProgressTypes : \E n \in 1 .. MaxChunks :
        \E d \in PayloadsOf(t, [nChunks |-> n]) \cup {NoFields} : HandleOnBothChannels(t, d)

SpecChannels == InitChannels /\ [][NextChannels]_vars

(***************************************************************************)
(* services/api: the requests of listFiles, analyze and createSSEConnection.*)
(* A URL is a path and a search string; strings are sequences of           *)
(* characters, with the parameter name "question" as one token.            *)
(***************************************************************************)
MaxQuestionLen == 3

QuestionChars == {"a", " ", "&", "=", "%"}

Questions == UNION { [1 .. n -> QuestionChars] : n \in 0 .. MaxQuestionLen }

\* encodeURIComponent of one character: unreserved characters stay, the others
\* become the percent-encoding of their UTF-8 byte
EncodeChar(ch) ==
    CASE ch = " " -> <<"%", "2", "0">>
      [] ch = "&" -> <<"%", "2", "6">>
      [] ch = "=" -> <<"%", "3", "D">>
      [] ch = "%" -> <<"%", "2", "5">>
      [] OTHER -> <<ch>>

RECURSIVE encodeURIComponent(_)
encodeURIComponent(t) ==
    IF t = <<>> THEN <<>> ELSE EncodeChar(Head(t)) \o encodeURIComponent(Tail(t))

\* fetch(url) without an init object issues a GET; so does new EventSource(url)
DefaultMethod == "GET"

\* listFiles(): fetch(`${API_BASE_URL}/api/files`)
listFilesRequest == [method |-> DefaultMethod, path |-> "/api/files", search |-> <<>>]

\* analyze(question): fetch(`${API_BASE_URL}/api/analyze?question=${encodeURIComponent(question)}`)
analyzeRequest(question) ==
    [method |-> DefaultMethod, path |-> "/api/analyze",
     search |-> <<"question", "=">> \o encodeURIComponent(question)]

\* createSSEConnection(question, ...): new EventSource(`.../api/analyze/stream?question=...`)
streamRequest(question) ==
    [method |-> DefaultMethod, path |-> "/api/analyze/stream",
     search |-> <<"question", "=">> \o encodeURIComponent(question)]

\* the responses fetch can resolve with: ok is status 200-299; the body is JSON
\* or not
Responses ==
    { [ok |-> o.ok, statusText |-> o.statusText, body |-> b] :
        o \in { [ok |-> TRUE, statusText |-> "OK"],
                [ok |-> FALSE, statusText |-> "Not Found"],
                [ok |-> FALSE, statusText |-> "Method Not Allowed"],
                [ok |-> FALSE, statusText |-> ""] },
        b \in { [parses |-> TRUE, value |-> [files |-> <<"sales.xlsx">>]],
                [parses |-> TRUE, value |-> [detail |-> "Not Found"]],
                [parses |-> FALSE, value |-> NoFields] } }

\* the rest of listFiles / analyze returning the body whatever response.ok says
settleUnchecked(prefix, response) ==
    IF response.body.parses
    THEN [kind |-> "returns", value |-> response.body.value]
    ELSE [kind |-> "throws", name |-> "SyntaxError", message |-> <<>>]

\* the rest of listFiles / analyze once fetch has resolved: throw
\* new Error(`${prefix}${response.statusText}`) unless response.ok, else return
\* response.json(), which rejects when the body is not JSON
settle(prefix, response) ==
    IF ~response.ok
    THEN [kind |-> "throws", name |-> "Error", message |-> <<prefix, response.statusText>>]
    ELSE IF response.body.parses
    THEN [kind |-> "returns", value |-> response.body.value]
    ELSE [kind |-> "throws", name |-> "SyntaxError", message |-> <<>>]

\* the prefix of the Error each function throws
ErrorPrefix(fn) == IF fn = "listFiles" THEN "Failed to list files: " ELSE "Analysis failed: "

InitApi ==
    /\ Init
    /\ scenario.payloads = "any" /\ ~scenario.voice
    /\ variant = Revised

ListFiles ==
    /\ call' = [fn |-> "listFiles", arg |-> <<>>, request |-> listFilesRequest,
                settled |-> FALSE]
    /\ UNCHANGED <<scenario, variant, mounted, appVars, srv, inputText, reqs, faults,
                   questionVars, voiceVars, voiceApp>>

Analyze(question) ==
    /\ call' = [fn |-> "analyze", arg |-> question, request |-> analyzeRequest(question),
                settled |-> FALSE]
    /\ UNCHANGED <<scenario, variant, mounted, appVars, srv, inputText, reqs, faults,
                   questionVars, voiceVars, voiceApp>>

StreamAnalyze(question) ==
    /\ call' = [fn |-> "createSSEConnection", arg |-> question,
                request |-> streamRequest(question), settled |-> FALSE]
    /\ UNCHANGED <<scenario, variant, mounted, appVars, srv, inputText, reqs, faults,
                   questionVars, voiceVars, voiceApp>>

\* fetch resolves with a response and the awaiting function goes on
FetchResolves(response) ==
    /\ call.fn \in {"listFiles", "analyze"} /\ ~call.settled
    /\ call' = [fn |-> call.fn, arg |-> call.arg, request |-> call.request, settled |-> TRUE,
                response |-> response, outcome |-> settle(ErrorPrefix(call.fn), response)]
    /\ UNCHANGED <<scenario, variant, mounted, appVars, srv, inputText, reqs, faults,
                   questionVars, voiceVars, voiceApp>>

NextApi ==
    \/ ListFiles
    \/ \E response \in Responses : FetchResolves(response)
    \/ \E question \in Questions : Analyze(question)
    \/ \E question \in Questions : StreamAnalyze(question)

SpecApi == InitApi /\ [][NextApi]_vars

(***************************************************************************)
(* Properties.                                                             *)
(***************************************************************************)
\* the connections that are not closed
OpenSources == {c \in Conns : es[c].readyState \in {CONNECTING, OPEN}}

\* the events the run behind c can deliver next
NextSSEEvents(c) ==
    UNION { {[step |-> step[1], ev |-> ev] : ev \in SSEEvents(step[1], step[2])} :
            step \in RunSteps(srv[c]) }

\* the messages the run of the oldest request on socket s can deliver next
NextVoiceMessages(s) ==
    UNION { {Typed(step[1], d) : d \in PayloadsOf(step[1], step[2])} :
            step \in RunSteps(wsrun[s]) }

\* C1: what is delivered to onMessage never leaves the sequence status*,
\* file_selected, status*, code_chunk*, execution_result, column_traceability,
\* complete; and when the connection of a successful run (one whose
\* column_traceability was delivered) is closed, the whole sequence, complete
\* included, has been delivered.
C1_SuccessfulRunSequence ==
    /\ delivered # "rejected"
    /\ \A c \in Conns :
          (c = Newest(es) /\ es[c].readyState = CLOSED /\ delivered \in {"traced", "completed"})
          => delivered = "completed"

\* C2: on no voice WebSocket are two requests awaiting their terminal event.
C2_VoiceRequestsSequential == \A s \in Socks : Len(wsq[s]) <= 1

\* C3: no question has caused more than one analysis request, counting the GET of
\* the SSE channel and the transcription sent on the voice WebSocket.
C3_OneRequestPerQuestion == \A q \in 1 .. MaxQuestions : reqs[q] <= 1

\* C4: the displayed code is the concatenation, in arrival order, of the chunks of
\* the current request's code_chunk events handled since the last reset.
C4_CodeIsCurrentChunksInOrder == app.code = expectedCode

\* what the user sees of a request's results
Display(a) == <<a.code, a.output, a.error, a.success, a.columns, a.originalFile, a.graphFiles>>

\* C5: handling an event of a request other than the current one, on the SSE
\* channel or on the voice WebSocket, leaves the display unchanged.
C5_RequestsIsolated ==
    /\ \A c \in Conns :
          (es[c].readyState = OPEN /\ es[c].q # curQ)
          => \A e \in NextSSEEvents(c) : Display(AfterSSE(World, c, e.ev).app) = Display(app)
    /\ \A s \in Socks :
          (ws[s] = OPEN /\ wsq[s] # <<>> /\ Head(wsq[s]).q # curQ)
          => \A m \in NextVoiceMessages(s) : Display(AfterVoice(World, m).app) = Display(app)

\* C6: at most one EventSource is not closed, it belongs to the current request,
\* and both handleAnalyze and the unmount cleanup close every EventSource that is
\* not closed.
C6_OneOpenConnection ==
    /\ Cardinality(OpenSources) <= 1
    /\ \A c \in OpenSources : es[c].q = curQ
    /\ CanConstruct(es) =>
          \A c \in OpenSources :
              handleAnalyze(World, <<"a">>, nQuestions + 1).es[c].readyState = CLOSED
    /\ \A c \in OpenSources :
          /\ cleanupRevised(World).es[c].readyState = CLOSED
          /\ cleanupOriginal(World).es[c].readyState = CLOSED

\* a second request was started while the first connection was still connecting
C6_Witness ==
    /\ mounted
    /\ es[1].readyState = CLOSED /\ es[1].requests = 0
    /\ es[2].readyState = OPEN

\* what an error event must leave alone
Kept(a) == <<a.code, a.output, a.columns, a.originalFile, a.graphFiles, a.success, a.question>>

\* C7: handling an error event, on the SSE channel or on the voice WebSocket,
\* leaves code, output, columns, originalFile and graphFiles (and success and the
\* question) as they were.
C7_ErrorsAreAdditive ==
    /\ \A c \in Conns : es[c].readyState = OPEN
          => \A ev \in SSEEvents("error", srv[c]) :
                Kept(AfterSSE(World, c, ev).app) = Kept(app)
    /\ \A s \in Socks : ws[s] = OPEN
          => \A d \in PayloadsOf("error", wsrun[s]) :
                Kept(AfterVoice(World, Typed("error", d)).app) = Kept(app)

\* an error event was handled after code and output had been streamed
C7_Witness ==
    /\ ~scenario.voice
    /\ delivered = "failed"
    /\ app.code # <<>> /\ app.output # "" /\ app.error = "No suitable file found"

\* execution_result payloads with success = false and a non-empty error
FailedExecution(d) == Truthy(d, "error") /\ ~BoolOr(d, "success")

C9_NoAutomaticRetry ==
    /\ \A c \in Conns : es[c].requests <= 1 /\ es[c].onErrorCalls <= 1
    /\ \A c \in Conns : es[c].readyState = CLOSED => ~es[c].pendingFetch
    /\ \A c \in OpenSources :
          LET w == dispatchEvent([World EXCEPT !.es[c].readyState = CONNECTING,
                                               !.es[c].pendingFetch = TRUE], c,
                                 ConnectionErrorEvent)
          IN  w.es[c].readyState = CLOSED /\ ~w.es[c].pendingFetch

\* a connection that had delivered events lost its stream, reported the error once
\* and stayed closed with its one request
C9_Witness ==
    /\ delivered \in {"preparing", "generating", "executed"}
    /\ mounted /\ nQuestions = 1
    /\ es[1].readyState = CLOSED /\ es[1].requests = 1 /\ es[1].onErrorCalls = 1

\* C10: after an error event the EventSource is closed and isLoading and isComplete
\* are false; and onMessage closes the EventSource only when handling a terminal
\* event, complete or error.
C10_ErrorIsTerminalAndCloseOnlyThen ==
    \A c \in Conns : es[c].readyState = OPEN
        => \A e \in NextSSEEvents(c) :
              LET w == AfterSSE(World, c, e.ev) IN
              /\ e.step = "error"
                    => (w.es[c].readyState = CLOSED /\ ~w.app.isLoading /\ ~w.app.isComplete)
              /\ w.es[c].readyState = CLOSED => e.step \in {"complete", "error"}

LiveSockets == {s \in Socks : ws[s] \in {CONNECTING, OPEN}}

\* C12: the component never holds more than one WebSocket that is not CLOSED, the
\* one it holds is the one wsRef names, and whenever a transcription can be
\* recognised (the component is listening) that WebSocket is OPEN, so that the
\* transcription is sent on it.
C12_OneUsableVoiceConnection ==
    /\ Cardinality(LiveSockets) <= 1
    /\ \A s \in LiveSockets : s = wsRef
    /\ (mounted /\ isListening) => (wsRef # Null /\ ws[wsRef] = OPEN)

\* the first half of C12 alone
C12_AtMostOneLiveSocket ==
    /\ Cardinality(LiveSockets) <= 1
    /\ \A s \in LiveSockets : s = wsRef

\* C13: every final transcription whose trimmed text has at least 3 characters
\* makes recognition.onresult send exactly one message, {text: <trimmed text>},
\* on the voice WebSocket.
C13_AcceptedTranscriptionIsSent ==
    (mounted /\ isListening) =>
        \A r \in SpeechEvents : Accepted(r) =>
            sendTranscription(ws, wsRef, Trim(finalTranscript(r)))
                = <<[text |-> Trim(finalTranscript(r))]>>

\* the character a percent-encoded byte stands for
DecodeByte(hi, lo) ==
    CASE hi = "2" /\ lo = "0" -> " "
      [] hi = "2" /\ lo = "6" -> "&"
      [] hi = "3" /\ lo = "D" -> "="
      [] hi = "2" /\ lo = "5" -> "%"
      [] OTHER -> "?"

\* percent-decoding, as the server does on a query parameter's value
RECURSIVE PercentDecode(_)
PercentDecode(t) ==
    IF t = <<>> THEN <<>>
    ELSE IF Head(t) = "%" /\ Len(t) >= 3
         THEN <<DecodeByte(t[2], t[3])>> \o PercentDecode(SubSeq(t, 4, Len(t)))
         ELSE <<Head(t)>> \o PercentDecode(Tail(t))

\* the search string up to its first "&": the first parameter
RECURSIVE FirstParam(_)
FirstParam(t) ==
    IF t = <<>> \/ Head(t) = "&" THEN <<>> ELSE <<Head(t)>> \o FirstParam(Tail(t))

\* the request carries the question as its only query parameter, named question
CarriesQuestion(request, question) ==
    /\ FirstParam(request.search) = request.search
    /\ Len(request.search) >= 2
    /\ request.search[1] = "question" /\ request.search[2] = "="
    /\ PercentDecode(SubSeq(request.search, 3, Len(request.search))) = question

\* C14: analyze(question) issues POST /api/analyze with the question URL-encoded
\* as the question query parameter, and the streaming call issues GET
\* /api/analyze/stream with the same parameter.
C14_RequestsAsDocumented ==
    /\ call.fn = "analyze" =>
          /\ call.request.method = "POST"
          /\ call.request.path = "/api/analyze"
          /\ CarriesQuestion(call.request, call.arg)
    /\ call.fn = "createSSEConnection" =>
          /\ call.request.method = "GET"
          /\ call.request.path = "/api/analyze/stream"
          /\ CarriesQuestion(call.request, call.arg)

\* C14 without the method of analyze: the paths, the question parameter and the
\* method of the streaming call
C14_PathsAndParameter ==
    /\ call.fn = "analyze" =>
          /\ call.request.path = "/api/analyze"
          /\ CarriesQuestion(call.request, call.arg)
    /\ call.fn = "createSSEConnection" =>
          /\ call.request.method = "GET"
          /\ call.request.path = "/api/analyze/stream"
          /\ CarriesQuestion(call.request, call.arg)

\* the request of the newest EventSource is the current one, its last event
\* (column_traceability or error) has been handled, and no animation frame or
\* timer of the completion check is pending
Quiescent(c) ==
    /\ c = Newest(es) /\ es[c].q = curQ
    /\ es[c].readyState = CLOSED
    /\ delivered \in {"traced", "failed"}
    /\ rafPending = 0 /\ orphanTimers = 0 /\ app.renderCheckTimeoutRef # "live"

\* C15: once the last event of a streaming request has been handled and the
\* animation frames and timers it caused have fired, isLoading is false.
C15_LoadingEnds == \A c \in Conns : (mounted /\ Quiescent(c)) => ~app.isLoading

\* C15 for requests that ended with an error event
C15_LoadingEndsAfterError ==
    \A c \in Conns : (mounted /\ Quiescent(c) /\ delivered = "failed") => ~app.isLoading

\* C15 for successful requests with code, an output or an error, and columns
C15_LoadingEndsWithAllData ==
    \A c \in Conns :
        (mounted /\ ~scenario.voice /\ Quiescent(c) /\ hasAllData(app)) => ~app.isLoading

\* C16: whenever isLoading is false (the text input is enabled), no EventSource
\* is CONNECTING or OPEN and no voice request awaits its terminal event.
C16_InputEnabledOnlyWhenIdle ==
    (mounted /\ ~app.isLoading) =>
        /\ OpenSources = {}
        /\ \A s \in Socks : wsq[s] = <<>>

\* C16 for part_000 when the user only types
C16_IdleWhenTypingRevised ==
    (mounted /\ ~app.isLoading /\ variant = Revised /\ ~scenario.voice) => OpenSources = {}

\* the request displayed has finished with all its data: code, an output or an
\* error, and columns are there, no EventSource is open, and the request did not
\* end with an error event
Finished ==
    /\ hasAllData(app)
    /\ OpenSources = {}
    /\ delivered # "failed"

\* C17: the timer of the completion check sets isComplete (and the status 'The
\* analysis is complete.') only when the request displayed has finished with all
\* its data, whichever request the check was scheduled for; and isComplete is
\* never true for a request that has not.
C17_CompleteOnlyWhenFinished ==
    /\ (mounted /\ (app.renderCheckTimeoutRef = "live" \/ orphanTimers > 0))
          => (renderCheckCallback(World).app.isComplete => Finished)
    /\ (mounted /\ app.isComplete) => Finished

\* C17 when the user only types
C17_CompleteOnlyWhenFinishedTyping ==
    (mounted /\ ~scenario.voice) =>
        /\ (app.renderCheckTimeoutRef = "live" \/ orphanTimers > 0)
              => (renderCheckCallback(World).app.isComplete => Finished)
        /\ app.isComplete => Finished

\* what the display shows of the execution_result payload d
ShowsExecution(a, d) ==
    LET failed == Has(d, "error") /\ d.error # "" /\ ~(Has(d, "success") /\ d.success = TRUE)
    IN  /\ a.error # "" <=> failed
        /\ failed => a.error = d.error
        /\ a.output = (IF Has(d, "output") THEN d.output ELSE "")
        /\ a.success = (IF Has(d, "success") THEN d.success ELSE FALSE)
        /\ a.graphFiles = (IF Has(d, "graph_files") THEN d.graph_files ELSE <<>>)

\* C18: after an execution_result is handled, on the SSE channel or on the voice
\* WebSocket, the error is the payload's error if that is non-empty and success
\* is not true, and empty otherwise; output, success and graph files are the
\* payload's values, or '', false and the empty list when absent.
C18_ExecutionResultShown ==
    /\ \A c \in Conns : es[c].readyState = OPEN
          => \A ev \in SSEEvents("execution_result", srv[c]) :
                ShowsExecution(AfterSSE(World, c, ev).app, ev.data)
    /\ \A s \in Socks : ws[s] = OPEN
          => \A d \in PayloadsOf("execution_result", wsrun[s]) :
                ShowsExecution(AfterVoice(World, Typed("execution_result", d)).app, d)

\* an execution_result with success = true and a warning in error was handled:
\* output shown, error empty, no graph files
C18_Witness ==
    /\ ~scenario.voice
    /\ delivered = "executed"
    /\ app.output = "42" /\ app.success /\ app.error = "" /\ app.graphFiles = <<>>

\* the worlds in which the browser has just failed EventSource c (a bad response
\* while connecting: CLOSED) or lost its stream (about to reconnect: CONNECTING),
\* before it dispatches the error event
FailedConnections(c) ==
    (IF es[c].readyState = CONNECTING /\ ~es[c].pendingFetch
     THEN {[World EXCEPT !.es[c].readyState = CLOSED]} ELSE {})
    \cup
    (IF es[c].readyState = OPEN \/ (es[c].readyState = CONNECTING /\ ~es[c].pendingFetch)
     THEN {[World EXCEPT !.es[c].readyState = CONNECTING, !.es[c].pendingFetch = TRUE]}
     ELSE {})

\* C19: after the error event of a connection failure is handled, isLoading is
\* false and the EventSource is closed; if neither code nor output had been
\* received the error is the 'Connection error...' message, and otherwise code,
\* output and error are as before.
C19_ConnectionFailure ==
    \A c \in Conns : \A w0 \in FailedConnections(c) :
        LET w == Render(World, dispatchEvent(w0, c, ConnectionErrorEvent), FALSE)
            received == app.code # <<>> \/ app.output # ""
        IN  /\ ~w.app.isLoading
            /\ w.es[c].readyState = CLOSED /\ ~w.es[c].pendingFetch
            /\ w.app.code = app.code /\ w.app.output = app.output
            /\ ~received => w.app.error = CONNECTION_ERROR
            /\ received => w.app.error = app.error

\* a connection failed after code had been streamed: the code stays and no error
\* is shown
C19_Witness ==
    /\ ~scenario.voice
    /\ delivered = "generating"
    /\ es[1].readyState = CLOSED /\ es[1].onErrorCalls = 1
    /\ app.code # <<>> /\ app.error = "" /\ ~app.isLoading

\* C20: an event whose data is a JSON object causes exactly one onMessage call,
\* with the payload's fields and a non-empty type, the payload's own when it has
\* one and the event's name otherwise; an event whose data is not JSON causes no
\* onMessage and no onError call, changes nothing in App, leaves the EventSource
\* OPEN, and the events after it are handled as they would have been without it.
C20_OneCallPerParsedEvent ==
    \A c \in Conns : es[c].readyState = OPEN =>
        /\ \A e \in NextSSEEvents(c) :
              LET calls == onMessageCalls(e.ev)
                  d == e.ev.data
              IN  /\ Len(calls) = 1
                  /\ Has(calls[1], "type") /\ calls[1].type # ""
                  /\ calls[1].type = (IF Has(d, "type") /\ d.type # "" THEN d.type
                                      ELSE e.ev.type)
                  /\ \A k \in DOMAIN d \ {"type"} : Has(calls[1], k) /\ calls[1][k] = d[k]
                  /\ handleEvent(World, c, e.ev) = AppOnMessage(World, c, calls[1])
        /\ \A g \in GarbledEvents :
              LET w == AfterSSE(World, c, g) IN
              /\ onMessageCalls(g) = <<>>
              /\ w.app = app
              /\ w.es[c].readyState = OPEN
              /\ w.es[c].onErrorCalls = es[c].onErrorCalls
              /\ \A e \in NextSSEEvents(c) :
                    LET w1 == AfterSSE(World, c, e.ev)
                        w2 == AfterSSE(w, c, e.ev)
                    IN  /\ w2.app = w1.app
                        /\ w2.es[c].readyState = w1.es[c].readyState

\* an event that was not JSON was dropped, and the run's events after it were
\* delivered up to column_traceability
C20_Witness ==
    /\ scenario.garbled /\ faults = 0
    /\ es[1].parseErrors = 1 /\ es[1].onErrorCalls = 0
    /\ delivered = "traced" /\ app.columns = <<"region">>

\* C21: the browser's error event dispatched while the EventSource is OPEN leaves
\* it OPEN, does not call onError and changes nothing in App; dispatched when the
\* EventSource is CLOSED or CONNECTING it calls onError once and leaves the
\* EventSource CLOSED.
C21_TransientErrorIgnored ==
    \A c \in Conns :
        /\ es[c].readyState = OPEN =>
              LET w == Render(World, dispatchEvent(World, c, ConnectionErrorEvent), FALSE)
              IN  /\ w.es[c].readyState = OPEN
                  /\ w.es[c].onErrorCalls = es[c].onErrorCalls
                  /\ w.app = app
        /\ \A w0 \in FailedConnections(c) :
              LET w == dispatchEvent(w0, c, ConnectionErrorEvent)
              IN  /\ w.es[c].onErrorCalls = es[c].onErrorCalls + 1
                  /\ w.es[c].readyState = CLOSED

\* an error event was dispatched on an OPEN EventSource, which stayed OPEN without
\* an onError call and went on to deliver the execution result
C21_Witness ==
    /\ ~scenario.garbled /\ faults = 1
    /\ es[1].readyState = OPEN
    /\ es[1].parseErrors = 1 /\ es[1].onErrorCalls = 0
    /\ delivered = "executed" /\ app.isLoading

\* n spaces
RECURSIVE Spaces(_)
Spaces(n) == IF n = 0 THEN <<>> ELSE <<" ">> \o Spaces(n - 1)

\* t is text with the white space at its two ends removed, and is not empty
IsTrimmed(t, text) ==
    /\ t # <<>> /\ Head(t) # " " /\ t[Len(t)] # " "
    /\ \E i, j \in 0 .. Len(text) : text = Spaces(i) \o t \o Spaces(j)

\* the texts the field can hold when handleSubmit runs: what it holds now, or
\* what the user types first while it is enabled
SubmittableTexts == {inputText} \cup (IF app.isLoading THEN {} ELSE TypedTexts)

\* C22: handleSubmit calls onAnalyze at most once, only while not disabled, and
\* only with the field's text trimmed and non-empty; after such a call the field
\* is empty; a submit without a call (blank text or disabled) leaves the field as
\* it is.
C22_SubmitOnlyTrimmedWhenEnabled ==
    mounted =>
        \A text \in SubmittableTexts :
            LET submit == handleSubmit(text, app.isLoading) IN
            /\ Len(submit.calls) <= 1
            /\ submit.calls # <<>> =>
                  /\ ~app.isLoading
                  /\ IsTrimmed(submit.calls[1], text)
                  /\ submit.question = <<>>
            /\ submit.calls = <<>> =>
                  /\ submit.question = text
                  /\ app.isLoading \/ \A k \in 1 .. Len(text) : text[k] = " "

\* a text was typed and not submitted, and the field was disabled before a submit:
\* the text is still in the field while loading
C22_Witness ==
    /\ mounted /\ app.isLoading
    /\ inputText = <<" ", "a", "b", "c", " ">>
    /\ app.question = <<"a", "b", "c">>

\* results hold no final result, or their final text has fewer than
\* MinTranscriptLength characters from its first to its last non-blank one
InterimOrShort(results) ==
    \/ \A i \in 1 .. Len(results) : ~results[i].isFinal
    \/ LET text == finalTranscript(results)
           inked == {k \in 1 .. Len(text) : text[k] # " "}
       IN  \A i, j \in inked : j - i + 1 < MinTranscriptLength

\* C23: for a result event with interim results only, or whose final text trimmed
\* is shorter than 3 characters, recognition.onresult sends nothing on the
\* WebSocket, does not call onTranscription, and leaves App's state (analysis
\* state, isLoading, question) and the EventSources as they are.
C23_NoRequestFromInterimOrShort ==
    (mounted /\ isListening) =>
        \A r \in SpeechEvents : InterimOrShort(r) =>
            LET result == recognitionOnResult(World, ws, wsRef, r, nQuestions + 1) IN
            /\ result.sent = <<>>
            /\ result.transcriptions = <<>>
            /\ result.w = World

\* results are displayed, the component listens and its WebSocket is open: a short
\* or interim result here would have something to reset and a socket to send on
C23_Witness ==
    /\ mounted /\ isListening
    /\ wsRef # Null /\ ws[wsRef] = OPEN
    /\ app.code # <<>> /\ app.output # ""
    /\ CanConstruct(es)

\* the fields resetAnalysisState is to set, and those it is to leave alone
ResetFields(a) ==
    <<a.code, a.output, a.error, a.success, a.columns, a.originalFile, a.graphFiles,
      a.isComplete, a.sseStreamClosed, a.status>>

KeptByReset(w) == <<w.app.isLoading, w.app.question, w.app.sseConnectionRef, w.es>>

\* C24: resetAnalysisState sets code, output, error, success, columns,
\* originalFile, graphFiles, isComplete, sseStreamClosed and status to their
\* initial values, leaves no timer of the completion check pending, and leaves
\* isLoading, the question and the SSE connection as they are.
C24_ResetFrame ==
    (mounted /\ variant = Revised) =>
        LET w == resetAnalysisState(World) IN
        /\ ResetFields(w.app) = ResetFields(AppInit)
        /\ KeptByReset(w) = KeptByReset(World)
        /\ w.app.renderCheckTimeoutRef # "live"
        /\ w.orphans = 0

\* C24 without the timers that renderCheckTimeoutRef does not name
C24_ResetFrameNamedTimer ==
    (mounted /\ variant = Revised) =>
        LET w == resetAnalysisState(World) IN
        /\ ResetFields(w.app) = ResetFields(AppInit)
        /\ KeptByReset(w) = KeptByReset(World)
        /\ w.app.renderCheckTimeoutRef # "live"
        /\ w.raf = rafPending /\ w.orphans = orphanTimers

\* C25: once App and VoiceInput are unmounted no EventSource and no WebSocket is
\* CONNECTING or OPEN, recognition is not listening, and no animation frame or
\* timer of the completion check is left to run.
C25_NothingLeftAfterUnmount ==
    ~mounted =>
        /\ OpenSources = {}
        /\ LiveSockets = {}
        /\ ~isListening
        /\ rafPending = 0 /\ orphanTimers = 0 /\ app.renderCheckTimeoutRef # "live"

\* C25 for the connections and the recogniser alone
C25_ConnectionsClosedAfterUnmount ==
    ~mounted =>
        /\ OpenSources = {}
        /\ LiveSockets = {}
        /\ ~isListening

\* C26: when the response is ok (and its body is JSON) listFiles and analyze
\* return the parsed body; when it is not ok they throw an Error whose message is
\* 'Failed to list files: ' or 'Analysis failed: ' followed by the status text;
\* they return a body only for an ok response.
C26_BodyOnlyWhenOk ==
    (call.fn \in {"listFiles", "analyze"} /\ call.settled) =>
        /\ (call.response.ok /\ call.response.body.parses) =>
              /\ call.outcome.kind = "returns"
              /\ call.outcome.value = call.response.body.value
        /\ ~call.response.ok =>
              /\ call.outcome.kind = "throws"
              /\ call.outcome.name = "Error"
              /\ call.fn = "listFiles" =>
                    call.outcome.message = <<"Failed to list files: ", call.response.statusText>>
              /\ call.fn = "analyze" =>
                    call.outcome.message = <<"Analysis failed: ", call.response.statusText>>
        /\ call.outcome.kind = "returns" => call.response.ok

\* analyze got a 405 response with a JSON body and threw 'Analysis failed: Method
\* Not Allowed'
C26_Witness ==
    /\ call.fn = "analyze" /\ call.settled
    /\ ~call.response.ok /\ call.response.body.parses
    /\ call.outcome.kind = "throws"
    /\ call.outcome.message = <<"Analysis failed: ", "Method Not Allowed">>

====
